---- MODULE Spec2Model ----
(***************************************************************************)
(* OpenChat V2 message lifecycle: the messages_v2 store with its TTL       *)
(* resolver, pin toggle and expiry sweep (database_schema_v2_messages.sql) *)
(* and the DirectChat client view that reconciles optimistic sends, the    *)
(* change feed and the periodic resync (src/components/DirectChat.tsx).    *)
(*                                                                         *)
(* Time is in seconds.  SQL NULL / a missing optional argument is the      *)
(* empty tuple Null, a present value v is <<v>>.                           *)
(***************************************************************************)
EXTENDS Integers, Sequences, FiniteSets, TLC

\* ------------------------------------------------------------------ bounds
MaxMsgs == 2        \* rows ever inserted into messages_v2
MaxTtlMsgs == 1     \* rows inserted in the TTL resolver specification
MaxTicks == 3       \* clock advances of TickSecs each

\* ------------------------------------------------------- program constants
SecsPerHour == 3600     \* message_deletion_timer / 3600 ; (n || ' hours')
FallbackHours == 24     \* retention_hours := 24
TickSecs == SecsPerHour \div 2

Null == <<>>
Some(x) == <<x>>

\* users_v2: id -> role.  "ghost" is an id that matches no row.
users_v2 == [op |-> "operator", guest |-> "guest"]
CallerIds == {"op", "guest", "ghost"}
GroupIds == {"g1"}
RetentionKey == "default_message_retention_hours"

VARIABLES
    now,            \* server clock, NOW()
    messages,       \* messages_v2: id -> row
    nextId,         \* next uuid_generate_v4() (never reused)
    groups,         \* groups: id -> [message_deletion_timer, is_active]
    app_settings,   \* app_settings: setting_key -> setting_value::INTEGER
    pin,            \* one toggle_message_pin call in progress
    sweep,          \* one cleanup_expired_messages call in progress
    reply,          \* what the last finished store call returned
    sinceSweep,     \* history: what happened since the last sweep took its snapshot
    view,           \* DirectChat: the messages state (the local view)
    feed,           \* postgres_changes events on their way to the view's channel
    chan,           \* DirectChat: the channel's last status, retryCount, retry timer
    load,           \* DirectChat: fetchMessages() in progress
    send,           \* DirectChat: sendMessage() in progress
    sync,           \* DirectChat: one syncInterval callback in progress
    fed,            \* history: ids whose INSERT event the view has handled
    life,           \* DirectChat: "mounted" until the mount effect's cleanup has run
    hub,            \* HybridMessagingService: channels map, channels at the transport
    rchat,          \* RealtimeChat: the messages state, events on their way to it
    hsend,          \* HybridMessagingService: one sendMessage call in progress
    hist,           \* HybridMessagingService: the last loadMessageHistory call and its result
    rms,            \* RealtimeMessagingService: channels, messages, messageTimers
    grp             \* one group: max_members, its group_members and group_join_requests rows

storeVars == <<now, messages, nextId, groups, app_settings, pin, sweep, reply, sinceSweep>>
clientVars == <<view, feed, chan, load, send, sync, fed>>
moreVars == <<hsend, hist, rms, grp>>
svcVars == <<life, hub, rchat, moreVars>>
vars == <<storeVars, clientVars, svcVars>>

\* ---------------------------------------------------------- TTL resolver
\* PostgreSQL integer division truncates toward zero.
IntDiv(a, b) == IF a >= 0 THEN a \div b ELSE -((-a) \div b)

\* SELECT (message_deletion_timer / 3600) FROM groups WHERE id = g AND is_active
GroupRetentionHours(g) ==
    IF g \in DOMAIN groups /\ groups[g].is_active
    THEN Some(IntDiv(groups[g].message_deletion_timer, SecsPerHour))
    ELSE Null

\* SELECT setting_value::INTEGER FROM app_settings WHERE setting_key = ...
SettingRetentionHours ==
    IF RetentionKey \in DOMAIN app_settings THEN Some(app_settings[RetentionKey]) ELSE Null

RetentionHours_IgnoreOverride(p_message_type, p_group_id, p_custom_retention_hours) ==
    IF p_message_type = "group" /\ p_group_id # Null
    THEN LET r == GroupRetentionHours(p_group_id[1])
         IN IF r = Null THEN FallbackHours ELSE r[1]
    ELSE LET s == SettingRetentionHours
         IN IF s = Null THEN FallbackHours ELSE s[1]

RetentionHours_NoSetting(p_message_type, p_group_id, p_custom_retention_hours) ==
    IF p_custom_retention_hours # Null THEN p_custom_retention_hours[1]
    ELSE IF p_message_type = "group" /\ p_group_id # Null
    THEN LET r == GroupRetentionHours(p_group_id[1])
         IN IF r = Null THEN FallbackHours ELSE r[1]
    ELSE FallbackHours

\* the retention_hours that calculate_message_ttl settles on
RetentionHours(p_message_type, p_group_id, p_custom_retention_hours) ==
    IF p_custom_retention_hours # Null THEN p_custom_retention_hours[1]
    ELSE IF p_message_type = "group" /\ p_group_id # Null
    THEN LET r == GroupRetentionHours(p_group_id[1])
         IN IF r = Null THEN FallbackHours ELSE r[1]
    ELSE LET s == SettingRetentionHours
         IN IF s = Null THEN FallbackHours ELSE s[1]

\* NOW() + (retention_hours || ' hours')::INTERVAL
calculate_message_ttl(p_message_type, p_group_id, p_custom_retention_hours) ==
    now + RetentionHours(p_message_type, p_group_id, p_custom_retention_hours) * SecsPerHour

\* ------------------------------------------------------------ messages_v2
\* CHECK constraints and the group_id foreign key of messages_v2
RowConstraints(row) ==
    /\ row.message_type \in {"direct", "group"}
    /\ \/ (row.message_type = "direct" /\ row.group_id = Null)
       \/ (row.message_type = "group" /\ row.group_id # Null)
    /\ row.group_id # Null => row.group_id[1] \in DOMAIN groups
    /\ (row.is_pinned = FALSE) \/ (row.is_pinned = TRUE /\ row.user_role = "operator")

\* send_message_v2_guest: the row it inserts, or the exception it raises
send_message_v2_guest(p_user_id, p_content, p_message_type, p_group_id, p_custom_retention_hours) ==
    IF p_user_id \notin DOMAIN users_v2
    THEN [ok |-> FALSE, err |-> "User not found"]
    ELSE LET row == [ id |-> nextId,
                      user_id |-> p_user_id,
                      content |-> p_content,
                      message_type |-> p_message_type,
                      group_id |-> p_group_id,
                      user_role |-> users_v2[p_user_id],
                      created_at |-> now,
                      expires_at |-> calculate_message_ttl(p_message_type, p_group_id,
                                                           p_custom_retention_hours),
                      is_pinned |-> FALSE ]
         IN IF RowConstraints(row)
            THEN [ok |-> TRUE, row |-> row]
            ELSE [ok |-> FALSE, err |-> "check_violation"]

Insert(row) == (row.id :> row) @@ messages
Delete(id) == [i \in DOMAIN messages \ {id} |-> messages[i]]

Touch == sinceSweep' = IF sinceSweep = "none" THEN "none" ELSE "dirty"

IdlePin == [pc |-> "idle", mid |-> 0, cur |-> FALSE, by |-> ""]
IdleSweep == [pc |-> "idle", at |-> 0, snap |-> {}, todo |-> {}, cnt |-> 0, follows |-> FALSE,
              by |-> ""]

\* ------------------------------------------------------------- store calls
\* rpc('send_message_v2_guest', ...): one transaction
DbSend(u, c, t, g, h) ==
    /\ nextId <= MaxMsgs
    /\ LET r == send_message_v2_guest(u, c, t, g, h)
       IN IF r.ok
          THEN /\ messages' = Insert(r.row)
               /\ nextId' = nextId + 1
               /\ reply' = [op |-> "send", ok |-> TRUE, id |-> r.row.id, args |-> [u |-> u, c |-> c, t |-> t, g |-> g, h |-> h]]
               /\ Touch
          ELSE /\ reply' = [op |-> "send", ok |-> FALSE, err |-> r.err, args |-> [u |-> u, c |-> c, t |-> t, g |-> g, h |-> h]]
               /\ UNCHANGED <<messages, nextId, sinceSweep>>
    /\ UNCHANGED <<now, groups, app_settings, pin, sweep>>

\* toggle_message_pin, first two statements: the role check and
\* SELECT is_pinned INTO current_pin_status
PinRoleRaises(p_operator_id) ==
    \* operator_role != 'operator' is NULL, not TRUE, when no row matched
    p_operator_id \in DOMAIN users_v2 /\ users_v2[p_operator_id] # "operator"

PinSelect(p_message_id, p_operator_id) ==
    /\ pin.pc = "idle"
    /\ IF PinRoleRaises(p_operator_id)
       THEN /\ reply' = [op |-> "pin", ok |-> FALSE, err |-> "Only operators can pin/unpin messages",
                         mid |-> p_message_id, by |-> p_operator_id]
            /\ UNCHANGED pin
       ELSE IF p_message_id \notin DOMAIN messages
       THEN /\ reply' = [op |-> "pin", ok |-> FALSE, err |-> "Message not found",
                         mid |-> p_message_id, by |-> p_operator_id]
            /\ UNCHANGED pin
       ELSE /\ pin' = [pc |-> "update", mid |-> p_message_id,
                       cur |-> messages[p_message_id].is_pinned, by |-> p_operator_id]
            /\ UNCHANGED reply
    /\ UNCHANGED <<now, messages, nextId, groups, app_settings, sweep, sinceSweep>>

\* toggle_message_pin, third statement and RETURN:
\* UPDATE messages_v2 SET is_pinned = NOT current_pin_status WHERE id = p_message_id
PinUpdate ==
    /\ pin.pc = "update"
    /\ LET new == ~pin.cur
           found == pin.mid \in DOMAIN messages
           row == [messages[pin.mid] EXCEPT !.is_pinned = new]
       IN IF found /\ ~RowConstraints(row)
          THEN /\ reply' = [op |-> "pin", ok |-> FALSE, err |-> "check_violation", mid |-> pin.mid,
                            by |-> pin.by]
               /\ UNCHANGED <<messages, sinceSweep>>
          ELSE /\ messages' = IF found THEN [messages EXCEPT ![pin.mid] = row] ELSE messages
               /\ reply' = [op |-> "pin", ok |-> TRUE, ret |-> new, mid |-> pin.mid,
                            rows |-> IF found THEN 1 ELSE 0, by |-> pin.by]
               /\ Touch
    /\ pin' = IdlePin
    /\ UNCHANGED <<now, nextId, groups, app_settings, sweep>>

\* cleanup_expired_messages: WHERE expires_at < NOW() AND is_pinned = FALSE
SweepQual_IgnorePin(row, at) == row.expires_at < at

SweepQual(row, at) == row.expires_at < at /\ row.is_pinned = FALSE

SweepCandidates_Batch(at) ==
    LET all == {id \in DOMAIN messages : SweepQual(messages[id], at)}
    IN {id \in all : \A j \in all : id <= j}

\* the rows whose snapshot version satisfies the DELETE's WHERE clause
SweepCandidates(at) == {id \in DOMAIN messages : SweepQual(messages[id], at)}

\* rpc('cleanup_expired_messages') in the session of uid: the DELETE takes its
\* snapshot
SweepBegin(uid) ==
    /\ sweep.pc = "idle"
    /\ LET hit == SweepCandidates(now)
       IN sweep' = [pc |-> "scan", at |-> now, snap |-> hit, todo |-> hit, cnt |-> 0,
                    follows |-> (sinceSweep = "clean"), by |-> uid]
    /\ sinceSweep' = "clean"
    /\ UNCHANGED <<now, messages, nextId, groups, app_settings, pin, reply>>

\* the DELETE reaches one snapshot row: it locks the row's latest committed
\* version, re-evaluates the WHERE clause on it, and deletes it if it qualifies
SweepRow(id) ==
    /\ sweep.pc = "scan"
    /\ id \in sweep.todo
    /\ IF id \in DOMAIN messages /\ SweepQual(messages[id], sweep.at)
       THEN /\ messages' = Delete(id)
            /\ sweep' = [sweep EXCEPT !.todo = @ \ {id}, !.cnt = @ + 1]
       ELSE /\ sweep' = [sweep EXCEPT !.todo = @ \ {id}]
            /\ UNCHANGED messages
    /\ UNCHANGED <<now, nextId, groups, app_settings, pin, reply, sinceSweep>>

\* GET DIAGNOSTICS deleted_count = ROW_COUNT; RETURN deleted_count
SweepEnd ==
    /\ sweep.pc = "scan"
    /\ sweep.todo = {}
    /\ reply' = [op |-> "sweep", ok |-> TRUE, n |-> sweep.cnt, seen |-> sweep.snap,
                 follows |-> sweep.follows, by |-> sweep.by]
    /\ sweep' = IdleSweep
    /\ UNCHANGED <<now, messages, nextId, groups, app_settings, pin, sinceSweep>>

\* HybridMessagingService.cleanupExpiredMessages that rethrows an rpc error
cleanupExpiredMessages_Throws(rpc) ==
    IF rpc.error THEN [raised |-> TRUE, n |-> 0]
    ELSE [raised |-> FALSE, n |-> IF rpc.data = Null THEN 0 ELSE rpc.data[1]]

\* HybridMessagingService.cleanupExpiredMessages: what the caller gets for the
\* rpc's { data, error } (a thrown error is caught and gives the same)
cleanupExpiredMessages(rpc) ==
    IF rpc.error THEN [raised |-> FALSE, n |-> 0]
    ELSE [raised |-> FALSE, n |-> IF rpc.data = Null THEN 0 ELSE rpc.data[1]]

\* rpc('cleanup_expired_messages') fails before the function runs (store not
\* reachable, request rejected): the store's transaction never starts
CleanupError ==
    /\ sweep.pc = "idle"
    /\ LET r == cleanupExpiredMessages([error |-> TRUE, data |-> Null])
       IN reply' = [op |-> "cleanup", ok |-> FALSE, raised |-> r.raised, n |-> r.n]
    /\ UNCHANGED <<now, messages, nextId, groups, app_settings, pin, sweep, sinceSweep>>

\* get_message_retention_hours(): COALESCE(retention_hours, 24)
get_message_retention_hours ==
    IF SettingRetentionHours = Null THEN FallbackHours ELSE SettingRetentionHours[1]

\* an updateMessageRetentionHours that also re-dates the stored direct messages
UpdateRetention_Redate(hours, uid) ==
    /\ LET allowed == uid \in DOMAIN users_v2 /\ users_v2[uid] = "operator"
           hit == allowed /\ RetentionKey \in DOMAIN app_settings
       IN /\ app_settings' = IF hit THEN [app_settings EXCEPT ![RetentionKey] = hours]
                                    ELSE app_settings
          /\ messages' = [id \in DOMAIN messages |->
                            IF hit /\ messages[id].message_type = "direct"
                            THEN [messages[id] EXCEPT
                                    !.expires_at = messages[id].created_at + hours * SecsPerHour]
                            ELSE messages[id]]
          /\ reply' = [op |-> "set_retention", ok |-> TRUE, rows |-> IF hit THEN 1 ELSE 0,
                       hours |-> hours, by |-> uid]
    /\ UNCHANGED <<now, nextId, groups, pin, sweep, sinceSweep>>

\* HybridMessagingService.updateMessageRetentionHours: UPDATE app_settings ...
\* WHERE setting_key = ..., under the row policy "Only operators can modify"
UpdateRetention(hours, uid) ==
    /\ LET allowed == uid \in DOMAIN users_v2 /\ users_v2[uid] = "operator"
           hit == allowed /\ RetentionKey \in DOMAIN app_settings
       IN /\ app_settings' = IF hit THEN [app_settings EXCEPT ![RetentionKey] = hours]
                                    ELSE app_settings
          /\ reply' = [op |-> "set_retention", ok |-> TRUE, rows |-> IF hit THEN 1 ELSE 0,
                       hours |-> hours, by |-> uid]
    /\ UNCHANGED <<now, messages, nextId, groups, pin, sweep, sinceSweep>>

\* GroupService.updateGroup by the group's admin: message_deletion_timer := secs
UpdateGroup(g, secs) ==
    /\ g \in DOMAIN groups
    /\ groups[g].is_active
    /\ groups' = [groups EXCEPT ![g].message_deletion_timer = secs]
    /\ reply' = [op |-> "update_group", ok |-> TRUE]
    /\ UNCHANGED <<now, messages, nextId, app_settings, pin, sweep, sinceSweep>>

\* GroupService.deleteGroup by the group's admin: soft delete
DeleteGroup(g) ==
    /\ g \in DOMAIN groups
    /\ groups[g].is_active
    /\ groups' = [groups EXCEPT ![g].is_active = FALSE]
    /\ reply' = [op |-> "delete_group", ok |-> TRUE]
    /\ UNCHANGED <<now, messages, nextId, app_settings, pin, sweep, sinceSweep>>

\* the server clock advances
Tick ==
    /\ now < MaxTicks * TickSecs
    /\ now' = now + TickSecs
    /\ Touch
    /\ UNCHANGED <<messages, nextId, groups, app_settings, pin, sweep, reply>>

\* ------------------------------------------------------------ DirectChat
ClientUser == "guest"
OptimisticHours == 24       \* Date.now() + 24 * 60 * 60 * 1000
maxRetries == 3

IsTemp(id) == id < 0        \* msg.id.startsWith('temp-'); stored ids are uuids
Ids(s) == {s[i].id : i \in DOMAIN s}
Count(s, id) == Cardinality({i \in DOMAIN s : s[i].id = id})
NoDup(s) == \A i, j \in DOMAIN s : s[i].id = s[j].id => i = j

\* messageCleanupService.isMessageExpired(expires_at)
isMessageExpired(expires_at) == expires_at <= now

\* .order('created_at', { ascending: true }); rows of equal created_at by id
Ordered(rows) ==
    IF rows = {} THEN <<>>
    ELSE CHOOSE s \in [1..Cardinality(rows) -> rows] :
            /\ \A r \in rows : \E i \in DOMAIN s : s[i] = r
            /\ \A i, j \in DOMAIN s :
                  i < j => \/ s[i].created_at < s[j].created_at
                           \/ (s[i].created_at = s[j].created_at /\ s[i].id < s[j].id)

\* the row policy "Anyone can view active messages": expires_at > NOW()
Visible(id) == id \in DOMAIN messages /\ messages[id].expires_at > now

\* from('messages_v2').select('*').eq('message_type', 'direct').order('created_at')
SelectDirect ==
    Ordered({messages[id] : id \in {i \in DOMAIN messages :
                                      Visible(i) /\ messages[i].message_type = "direct"}})

\* the change feed of one store step, for a joined channel: INSERT of a direct
\* row (filter message_type=eq.direct) with the row as payload.new, DELETE of
\* any row with its key as payload.old; a store step changes at most one row
FeedEvents ==
    LET ins == {id \in DOMAIN messages' \ DOMAIN messages :
                   messages'[id].message_type = "direct"}
        del == DOMAIN messages \ DOMAIN messages'
    IN IF ins # {} THEN <<[type |-> "INSERT", row |-> messages'[CHOOSE id \in ins : TRUE]]>>
       ELSE IF del # {} THEN <<[type |-> "DELETE", row |-> [id |-> CHOOSE id \in del : TRUE]]>>
       ELSE <<>>

Publish == feed' = IF chan.status = "SUBSCRIBED" THEN feed \o FeedEvents ELSE feed

\* a step of the store alone / of the mounted DirectChat view alone
NoClient == UNCHANGED <<clientVars, svcVars>>
NoStore == UNCHANGED <<storeVars, svcVars>>

IdleSend == [pc |-> "idle", tempId |-> 0, content |-> "", id |-> 0, stored |-> Null]
IdleSync == [pc |-> "idle", data |-> <<>>]
\* channels: the entry of the one channel name; live: channels created and
\* subscribed, not removed; calls: subscribe() calls suspended at their await
IdleHub == [channels |-> Null, live |-> {}, calls |-> {}, next |-> 1]
IdleRchat == [pc |-> "none", messages |-> <<>>, feed |-> <<>>]
\* cast: the payload of the broadcast the call has sent; result, ret: how the
\* call ended and the message it returned
IdleHsend == [pc |-> "idle", id |-> 0, stored |-> Null, cast |-> Null,
              result |-> "none", ret |-> Null]

\* createGroup: the group's max_members, and its creator, who is inserted as
\* the first row of group_members
MaxMembers == 2

GroupAdmin == "admin"

MoreInit ==
    /\ hsend = IdleHsend
    /\ hist = [context |-> "none", groupId |-> Null, rows |-> <<>>]
    /\ rms = [channels |-> {}, messages |-> <<>>, messageTimers |-> <<>>, next |-> 1]
    /\ grp = [max_members |-> MaxMembers, members |-> [u \in {GroupAdmin} |-> TRUE],
              requests |-> <<>>, joining |-> <<>>]

NoClientInit ==
    /\ view = <<>>
    /\ feed = <<>>
    /\ chan = [status |-> "none", retryCount |-> 0, timer |-> FALSE, again |-> FALSE,
            tries |-> 0]
    /\ load = [pc |-> "none", data |-> <<>>]
    /\ send = IdleSend
    /\ sync = IdleSync
    /\ fed = {}
    /\ life = "mounted"
    /\ hub = IdleHub
    /\ rchat = IdleRchat
    /\ MoreInit

\* the INSERT handler's setMessages(prev => ...)
OnInsert(prev, newMessage) ==
    IF ~(\E i \in DOMAIN prev : prev[i].id = newMessage.id)
    THEN Append(prev, newMessage)
    ELSE [i \in DOMAIN prev |->
            IF /\ IsTemp(prev[i].id)
               /\ prev[i].content = newMessage.content
               /\ prev[i].user_id = newMessage.user_id
            THEN newMessage
            ELSE IF prev[i].id = newMessage.id THEN newMessage ELSE prev[i]]

\* the DELETE handler's setMessages(prev => prev.filter(...))
OnDelete(prev, deletedMessage) ==
    LET keep(msg) == msg.id # deletedMessage.id IN SelectSeq(prev, keep)

\* (data || []).filter(message => !isMessageExpired(message.expires_at))
ValidMessages(data) ==
    LET keep(message) == ~isMessageExpired(message.expires_at) IN SelectSeq(data, keep)

\* a syncInterval callback that appends the listing to the view
OnSync_AppendAll(prev, data) == prev \o ValidMessages(data)

\* the syncInterval callback's setMessages(prev => ...)
OnSync(prev, data) ==
    LET validMessages == ValidMessages(data)
        keep(dbMsg) == ~(\E i \in DOMAIN prev : prev[i].id = dbMsg.id)
        newMessages == SelectSeq(validMessages, keep)
    IN IF Len(newMessages) > 0 THEN validMessages ELSE prev

\* sendMessage's replacement of the optimistic entry
ReplaceTemp(prev, tempId, storedMessage) ==
    [i \in DOMAIN prev |-> IF prev[i].id = tempId THEN storedMessage ELSE prev[i]]

\* fetchMessages(): the query reaches the store
LoadQuery ==
    /\ load.pc = "wait"
    /\ load' = [pc |-> "got", data |-> SelectDirect]
    /\ UNCHANGED <<view, feed, chan, send, sync, fed>>
    /\ NoStore

\* fetchMessages(): setMessages(validMessages); setLoading(false)
LoadDone ==
    /\ load.pc = "got"
    /\ view' = ValidMessages(load.data)
    /\ load' = [pc |-> "done", data |-> <<>>]
    /\ UNCHANGED <<feed, chan, send, sync, fed>>
    /\ NoStore

\* fetchMessages(): the query fails; catch logs, finally setLoading(false)
LoadError ==
    /\ load.pc = "wait"
    /\ load' = [pc |-> "done", data |-> <<>>]
    /\ UNCHANGED <<view, feed, chan, send, sync, fed>>
    /\ NoStore

\* subscribe callback: status === 'SUBSCRIBED'
ChanSubscribed ==
    /\ chan.status = "joining"
    /\ chan' = [chan EXCEPT !.status = "SUBSCRIBED", !.retryCount = 0, !.tries = 0]
    /\ UNCHANGED <<view, feed, load, send, sync, fed>>
    /\ NoStore

\* a status callback that schedules a retry also when retryCount = maxRetries
ChanError_OneMore ==
    /\ chan.status \in {"joining", "SUBSCRIBED"}
    /\ chan' = IF chan.retryCount <= maxRetries
               THEN [chan EXCEPT !.status = "CHANNEL_ERROR",
                                 !.retryCount = chan.retryCount + 1, !.timer = TRUE]
               ELSE [chan EXCEPT !.status = "CHANNEL_ERROR"]
    /\ feed' = <<>>
    /\ UNCHANGED <<view, load, send, sync, fed>>
    /\ NoStore

\* subscribe callback: status === 'CHANNEL_ERROR' (the join fails or the
\* transport of a joined channel drops; events in flight are lost)
ChanError ==
    /\ chan.status \in {"joining", "SUBSCRIBED"}
    /\ chan' = IF chan.retryCount < maxRetries
               THEN [chan EXCEPT !.status = "CHANNEL_ERROR",
                                 !.retryCount = chan.retryCount + 1, !.timer = TRUE]
               ELSE [chan EXCEPT !.status = "CHANNEL_ERROR"]
    /\ feed' = <<>>
    /\ UNCHANGED <<view, load, send, sync, fed>>
    /\ NoStore

\* subscribe callback: status === 'TIMED_OUT'
ChanTimedOut ==
    /\ chan.status = "joining"
    /\ chan' = IF chan.retryCount < maxRetries
               THEN [chan EXCEPT !.status = "TIMED_OUT",
                                 !.retryCount = chan.retryCount + 1, !.timer = TRUE]
               ELSE [chan EXCEPT !.status = "TIMED_OUT"]
    /\ feed' = <<>>
    /\ UNCHANGED <<view, load, send, sync, fed>>
    /\ NoStore

\* setTimeout(setupRealtimeSubscription, ...): removeChannel, new channel;
\* chan.again records that the view's channel is not its first one, chan.tries
\* counts the resubscribe attempts since the last SUBSCRIBED
setupRealtimeSubscription ==
    /\ chan.timer
    /\ chan' = [chan EXCEPT !.status = "joining", !.timer = FALSE, !.again = TRUE,
                            !.tries = @ + 1]
    /\ feed' = <<>>
    /\ UNCHANGED <<view, load, send, sync, fed>>
    /\ NoStore

\* the INSERT handler runs on the next event of the channel
FeedInsert ==
    /\ feed # <<>>
    /\ Head(feed).type = "INSERT"
    /\ view' = OnInsert(view, Head(feed).row)
    /\ feed' = Tail(feed)
    /\ fed' = fed \cup {Head(feed).row.id}
    /\ UNCHANGED <<chan, load, send, sync>>
    /\ NoStore

\* the DELETE handler runs on the next event of the channel
FeedDelete ==
    /\ feed # <<>>
    /\ Head(feed).type = "DELETE"
    /\ view' = OnDelete(view, Head(feed).row)
    /\ feed' = Tail(feed)
    /\ UNCHANGED <<chan, load, send, sync, fed>>
    /\ NoStore

FreshTempId == 0 - 1 - Cardinality({i \in DOMAIN view : IsTemp(view[i].id)})

\* sendMessage up to the rpc call: the optimistic entry is appended
SendStart(content) ==
    /\ load.pc = "done"
    /\ send.pc = "idle"
    /\ LET optimisticMessage == [ id |-> FreshTempId,
                                  user_id |-> ClientUser,
                                  content |-> content,
                                  created_at |-> now,
                                  expires_at |-> now + OptimisticHours * SecsPerHour,
                                  message_type |-> "direct",
                                  user_role |-> users_v2[ClientUser] ]
       IN /\ view' = Append(view, optimisticMessage)
          /\ send' = [IdleSend EXCEPT !.pc = "rpc", !.tempId = optimisticMessage.id,
                                      !.content = content]
    /\ UNCHANGED <<feed, chan, load, sync, fed>>
    /\ NoStore

\* rpc('send_message_v2_guest') runs in the store and returns the new id
SendRpc ==
    /\ send.pc = "rpc"
    /\ DbSend(ClientUser, send.content, "direct", Null, Null)
    /\ Publish
    /\ send' = IF reply'.ok THEN [send EXCEPT !.pc = "select", !.id = reply'.id]
                            ELSE [send EXCEPT !.pc = "fail"]
    /\ UNCHANGED <<view, chan, load, sync, fed, svcVars>>

\* the rpc or the read-back fails without reaching the store: throw
SendError ==
    /\ send.pc \in {"rpc", "select"}
    /\ send' = [send EXCEPT !.pc = "fail"]
    /\ UNCHANGED <<view, feed, chan, load, sync, fed>>
    /\ NoStore

\* from('messages_v2').select('*').eq('id', messageId).single()
SendSelect ==
    /\ send.pc = "select"
    /\ send' = IF Visible(send.id)
               THEN [send EXCEPT !.pc = "resp", !.stored = Some(messages[send.id])]
               ELSE [send EXCEPT !.pc = "fail"]
    /\ UNCHANGED <<view, feed, chan, load, sync, fed>>
    /\ NoStore

\* the optimistic entry is replaced by the stored message; finally
SendDone ==
    /\ send.pc = "resp"
    /\ view' = ReplaceTemp(view, send.tempId, send.stored[1])
    /\ send' = [send EXCEPT !.pc = "idle"]
    /\ UNCHANGED <<feed, chan, load, sync, fed>>
    /\ NoStore

\* catch: the optimistic entry is removed; finally
SendFail ==
    /\ send.pc = "fail"
    /\ view' = OnDelete(view, [id |-> send.tempId])
    /\ send' = [send EXCEPT !.pc = "idle"]
    /\ UNCHANGED <<feed, chan, load, sync, fed>>
    /\ NoStore

\* syncInterval fires: the query reaches the store (a failed query returns
\* without touching the view and is no step)
SyncQuery ==
    /\ life = "mounted"
    /\ sync.pc = "idle"
    /\ chan.status # "none"
    /\ sync' = [pc |-> "got", data |-> SelectDirect]
    /\ UNCHANGED <<view, feed, chan, load, send, fed>>
    /\ NoStore

\* syncInterval: the response is applied
SyncDone ==
    /\ sync.pc = "got"
    /\ view' = OnSync(view, sync.data)
    /\ sync' = IdleSync
    /\ UNCHANGED <<feed, chan, load, send, fed>>
    /\ NoStore

\* cleanupInterval fires
CleanupTick ==
    /\ life = "mounted"
    /\ chan.status # "none"
    /\ view' = ValidMessages(view)
    /\ UNCHANGED <<feed, chan, load, send, sync, fed>>
    /\ NoStore

\* the mount effect's cleanup: removeChannel(channel) (its callback reports
\* CLOSED), clearInterval(cleanupInterval), clearInterval(syncInterval); the
\* retry timeout is not among the things it clears
Unmount ==
    /\ life = "mounted"
    /\ life' = "left"
    /\ chan' = [chan EXCEPT !.status = "CLOSED"]
    /\ feed' = <<>>
    /\ UNCHANGED <<view, load, send, sync, fed, hub, rchat, moreVars>>
    /\ UNCHANGED storeVars

\* ------------------------------------------------ HybridMessagingService
MaxChannels == 3    \* channels ever created by supabase.channel()

\* unsubscribe(channelName): the mapped channel is removed and unmapped
HubUnmapped == [hub EXCEPT !.channels = Null,
                           !.live = IF hub.channels = Null THEN @ ELSE @ \ {hub.channels[1]}]

\* subscribe(...) up to "await channel.subscribe()": unsubscribe(channelName),
\* a new channel with its handlers, channel.subscribe()
HubSubscribe ==
    /\ hub.next <= MaxChannels
    /\ hub' = [HubUnmapped EXCEPT !.live = @ \cup {hub.next},
                                  !.calls = @ \cup {hub.next},
                                  !.next = @ + 1]
    /\ UNCHANGED <<storeVars, clientVars, life, rchat, moreVars>>

\* subscribe(...) after the await: this.channels.set(channelName, channel)
HubSubscribed(c) ==
    /\ c \in hub.calls
    /\ hub' = [hub EXCEPT !.channels = Some(c), !.calls = @ \ {c}]
    /\ UNCHANGED <<storeVars, clientVars, life, rchat, moreVars>>

\* unsubscribe(channelName) with a mapped channel (without one it does nothing)
HubUnsubscribe ==
    /\ hub.channels # Null
    /\ hub' = HubUnmapped
    /\ UNCHANGED <<storeVars, clientVars, life, rchat, moreVars>>

\* ------------------------------------------------------------ RealtimeChat
\* the RealtimeMessage built from a row (payload.new, a row of the history)
realtimeMessage(dbMessage) ==
    [ id |-> dbMessage.id,
      user_id |-> dbMessage.user_id,
      content |-> dbMessage.content,
      created_at |-> dbMessage.created_at,
      expires_at |-> dbMessage.expires_at,
      group_id |-> dbMessage.group_id,
      message_type |-> dbMessage.message_type,
      user_role |-> dbMessage.user_role ]

\* Array.prototype.sort by created_at (stable)
RECURSIVE SortByCreatedAt(_)
SortByCreatedAt(s) ==
    IF s = <<>> THEN <<>>
    ELSE LET m == s[Len(s)]
             init == SortByCreatedAt(SubSeq(s, 1, Len(s) - 1))
             k == Cardinality({i \in DOMAIN init : init[i].created_at <= m.created_at})
         IN SubSeq(init, 1, k) \o <<m>> \o SubSeq(init, k + 1, Len(init))

\* handleNewMessage's setMessages(prev => ...)
handleNewMessage(prev, message) ==
    IF \E i \in DOMAIN prev : prev[i].id = message.id
    THEN prev
    ELSE SortByCreatedAt(Append(prev, message))

\* the change feed of one store step, once for every channel of the service
\* that is joined at the transport
RECURSIVE Copies(_, _)
Copies(s, k) == IF k = 0 THEN <<>> ELSE s \o Copies(s, k - 1)

RcPublish == rchat' = [rchat EXCEPT !.feed = @ \o Copies(FeedEvents, Cardinality(hub.live))]

\* initializeChat: loadMessageHistory('direct') and setMessages(history)
RcLoad ==
    /\ rchat.pc = "none"
    /\ rchat' = [rchat EXCEPT !.pc = "loaded",
                              !.messages = [i \in DOMAIN SelectDirect |->
                                               realtimeMessage(SelectDirect[i])]]
    /\ UNCHANGED <<storeVars, clientVars, life, hub, moreVars>>

\* initializeChat: HybridMessagingService.subscribe('direct', null, handleNewMessage)
RcSubscribe ==
    /\ rchat.pc = "loaded"
    /\ rchat' = [rchat EXCEPT !.pc = "ready"]
    /\ hub.next <= MaxChannels
    /\ hub' = [HubUnmapped EXCEPT !.live = @ \cup {hub.next},
                                  !.calls = @ \cup {hub.next},
                                  !.next = @ + 1]
    /\ UNCHANGED <<storeVars, clientVars, life, moreVars>>

\* the service's INSERT handler: onMessage(realtimeMessage)
RcInsert ==
    /\ rchat.feed # <<>>
    /\ Head(rchat.feed).type = "INSERT"
    /\ rchat' = [rchat EXCEPT !.messages = handleNewMessage(@, realtimeMessage(Head(rchat.feed).row)),
                              !.feed = Tail(@)]
    /\ UNCHANGED <<storeVars, clientVars, life, hub, moreVars>>

\* the service's DELETE handler: console.log(payload.old), nothing else
RcDelete ==
    /\ rchat.feed # <<>>
    /\ Head(rchat.feed).type = "DELETE"
    /\ rchat' = [rchat EXCEPT !.feed = Tail(@)]
    /\ UNCHANGED <<storeVars, clientVars, life, hub, moreVars>>

\* ------------------------------------- HybridMessagingService.sendMessage
\* what "await channel.send(...)" can give: its three results, or a rejection
BroadcastOutcomes == {"ok", "error", "timed out", "raise"}

HsThrew == [IdleHsend EXCEPT !.pc = "done", !.result = "threw"]

\* a sendMessage that broadcasts its message before it stores it
HsRpc_CastFirst(u, c, h) ==
    /\ hsend.pc \in {"idle", "done"}
    /\ DbSend(u, c, "direct", Null, h)
    /\ hsend' = IF reply'.ok
                THEN [IdleHsend EXCEPT !.pc = "select", !.id = reply'.id,
                                       !.cast = Some([id |-> 0, user_id |-> u, content |-> c])]
                ELSE [HsThrew EXCEPT !.cast = Some([id |-> 0, user_id |-> u, content |-> c])]
    /\ Publish
    /\ UNCHANGED <<view, chan, load, send, sync, fed, life, hub, rchat, hist, rms, grp>>

\* step 1: rpc('send_message_v2_guest') runs in the store; dbError throws
HsRpc(u, c, h) ==
    /\ hsend.pc \in {"idle", "done"}
    /\ DbSend(u, c, "direct", Null, h)
    /\ hsend' = IF reply'.ok
                THEN [IdleHsend EXCEPT !.pc = "select", !.id = reply'.id]
                ELSE HsThrew
    /\ Publish
    /\ UNCHANGED <<view, chan, load, send, sync, fed, life, hub, rchat, hist, rms, grp>>

\* step 1 fails without reaching the store: throw
HsRpcError ==
    /\ hsend.pc \in {"idle", "done"}
    /\ hsend' = HsThrew
    /\ UNCHANGED <<storeVars, clientVars, life, hub, rchat, hist, rms, grp>>

\* step 2: select('*').eq('id', messageId).single(); fetchError throws
HsSelect ==
    /\ hsend.pc = "select"
    /\ hsend' = IF Visible(hsend.id)
                THEN [hsend EXCEPT !.pc = "cast", !.stored = Some(messages[hsend.id])]
                ELSE [HsThrew EXCEPT !.id = hsend.id]
    /\ UNCHANGED <<storeVars, clientVars, life, hub, rchat, hist, rms, grp>>

\* step 2 fails without reaching the store: throw
HsSelectError ==
    /\ hsend.pc = "select"
    /\ hsend' = [HsThrew EXCEPT !.id = hsend.id]
    /\ UNCHANGED <<storeVars, clientVars, life, hub, rchat, hist, rms, grp>>

\* steps 3 and 4: the broadcast on the mapped channel, if there is one, and
\* the return; a rejection of channel.send reaches the catch, which rethrows
HsBroadcast(outcome) ==
    /\ hsend.pc = "cast"
    /\ LET m == realtimeMessage(hsend.stored[1])
       IN hsend' = IF hub.channels = Null
                   THEN [hsend EXCEPT !.pc = "done", !.result = "ok", !.ret = Some(m)]
                   ELSE IF outcome = "raise"
                   THEN [hsend EXCEPT !.pc = "done", !.result = "threw", !.cast = Some(m)]
                   ELSE [hsend EXCEPT !.pc = "done", !.result = "ok", !.ret = Some(m),
                                      !.cast = Some(m)]
    /\ UNCHANGED <<storeVars, clientVars, life, hub, rchat, hist, rms, grp>>

\* ------------------------------- HybridMessagingService.loadMessageHistory
HistoryLimit == 50      \* limit: number = 50

Take(s, n) == SubSeq(s, 1, IF Len(s) < n THEN Len(s) ELSE n)

\* the rows the query selects: every row the policy shows, filtered by
\* message_type for 'direct', by message_type and group_id for 'group' with a
\* groupId, and not filtered otherwise
HistoryFilter(row, context, groupId) ==
    IF context = "direct" THEN row.message_type = "direct"
    ELSE IF context = "group" /\ groupId # Null
    THEN row.message_type = "group" /\ row.group_id = groupId
    ELSE TRUE

\* loadMessageHistory(context, groupId): order by created_at, limit, map
loadMessageHistory(context, groupId) ==
    LET rows == Take(Ordered({messages[id] : id \in {i \in DOMAIN messages :
                         Visible(i) /\ HistoryFilter(messages[i], context, groupId)}}),
                     HistoryLimit)
    IN [i \in DOMAIN rows |-> realtimeMessage(rows[i])]

\* initializeChat: const history = await loadMessageHistory(context, group?.id)
LoadHistory(context, groupId) ==
    /\ hist' = [context |-> context, groupId |-> groupId,
                rows |-> loadMessageHistory(context, groupId)]
    /\ UNCHANGED <<storeVars, clientVars, life, hub, rchat, hsend, rms, grp>>

\* ------------------------------------------------ RealtimeMessagingService
\* Strings are sequences of tokens: a group id is its digits, 'group_' and '_'
\* are one token each, so that startsWith is a prefix test on the sequence.
MaxRmsMsgs == 2     \* messages ever sent or received

Put(f, k, v) == [x \in DOMAIN f \cup {k} |-> IF x = k THEN v ELSE f[x]]
Drop(f, K) == [x \in DOMAIN f \ K |-> f[x]]

\* getChannelName('group', groupId): `group_${groupId}`
getChannelName(groupId) == <<"group_">> \o groupId

\* `${channelName}_${message.id}`
TimerId(channelName, messageId) == channelName \o <<"_", messageId>>

\* timerId.startsWith(channelName)
startsWith(timerId, channelName) ==
    /\ Len(timerId) >= Len(channelName)
    /\ SubSeq(timerId, 1, Len(channelName)) = channelName

\* addMessage: the channel's list with the message, unless its id is there
addMessage(msgs, channelName, message) ==
    LET prev == IF channelName \in DOMAIN msgs THEN msgs[channelName] ELSE <<>>
    IN Put(msgs, channelName,
           IF \E i \in DOMAIN prev : prev[i].id = message.id
           THEN prev
           ELSE SortByCreatedAt(Append(prev, message)))

\* deleteMessage: messages.splice(index, 1) if the channel has the message
deleteMessage(msgs, channelName, messageId) ==
    IF channelName \in DOMAIN msgs
    THEN LET keep(m) == m.id # messageId
         IN Put(msgs, channelName, SelectSeq(msgs[channelName], keep))
    ELSE msgs

\* addMessage and scheduleMessageDeletion for a message sent or received
RmsStore(channelName, message) ==
    LET added == addMessage(rms.messages, channelName, message)
        delay == message.expires_at - now
        timerId == TimerId(channelName, message.id)
    IN IF delay > 0
       THEN [rms EXCEPT !.messages = added,
                        !.messageTimers = Put(@, timerId,
                            [channelName |-> channelName, messageId |-> message.id,
                             due |-> message.expires_at]),
                        !.next = @ + 1]
       ELSE [rms EXCEPT !.messages = deleteMessage(added, channelName, message.id),
                        !.next = @ + 1]

RmsMessage(deletionTimer) ==
    [id |-> ToString(rms.next), created_at |-> now, expires_at |-> now + deletionTimer]

RmsFrame == UNCHANGED <<storeVars, clientVars, life, hub, rchat, hsend, hist, grp>>

\* unsubscribe(channelName) for a mapped channel (without one it does nothing)
RmsUnsubscribed(channelName) ==
    [rms EXCEPT !.channels = @ \ {channelName},
                !.messageTimers = Drop(@, {t \in DOMAIN @ : startsWith(t, channelName)}),
                !.messages = Drop(@, {channelName})]

\* subscribe('group', groupId, ...): unsubscribe(channelName), then the new
\* channel is mapped
RmsSubscribe(groupId) ==
    /\ LET channelName == getChannelName(groupId)
           cleared == IF channelName \in rms.channels
                      THEN RmsUnsubscribed(channelName) ELSE rms
       IN rms' = [cleared EXCEPT !.channels = @ \cup {channelName}]
    /\ RmsFrame

\* unsubscribe(channelName)
RmsUnsubscribe(groupId) ==
    /\ getChannelName(groupId) \in rms.channels
    /\ rms' = RmsUnsubscribed(getChannelName(groupId))
    /\ RmsFrame

\* sendMessage(..., deletionTimer) on a mapped channel whose broadcast is 'ok'
RmsSend(groupId, deletionTimer) ==
    /\ rms.next <= MaxRmsMsgs
    /\ getChannelName(groupId) \in rms.channels
    /\ rms' = RmsStore(getChannelName(groupId), RmsMessage(deletionTimer))
    /\ RmsFrame

\* the broadcast handler of a mapped channel receives another client's message
RmsReceive(groupId, deletionTimer) ==
    /\ rms.next <= MaxRmsMsgs
    /\ getChannelName(groupId) \in rms.channels
    /\ rms' = RmsStore(getChannelName(groupId), RmsMessage(deletionTimer))
    /\ RmsFrame

\* a deletion timer fires: deleteMessage, messageTimers.delete(timerId)
RmsTimer(timerId) ==
    /\ timerId \in DOMAIN rms.messageTimers
    /\ rms.messageTimers[timerId].due <= now
    /\ LET t == rms.messageTimers[timerId]
       IN rms' = [rms EXCEPT !.messages = deleteMessage(@, t.channelName, t.messageId),
                             !.messageTimers = Drop(@, {timerId})]
    /\ RmsFrame

\* the clock advances; a timer that is due fires before the clock moves on
RmsTick ==
    /\ \A t \in DOMAIN rms.messageTimers : rms.messageTimers[t].due > now
    /\ Tick
    /\ NoClient

\* ------------------------------------------------------ group membership
\* members: user -> is_active, one row for a user (UNIQUE(user_id, group_id));
\* requests: user -> status; joining: user -> the memberCount its joinGroup read
MemberUsers == {"u1", "u2", "u3"}

ActiveMembers(g) == {u \in DOMAIN g.members : g.members[u]}

GrpFrame == UNCHANGED <<storeVars, clientVars, life, hub, rchat, hsend, hist, rms>>

\* joinGroup up to the capacity check: the group is found, the user is not an
\* active member, the count of active members is read
JoinCount(u) ==
    /\ u \notin DOMAIN grp.joining
    /\ u \notin ActiveMembers(grp)
    /\ grp' = [grp EXCEPT !.joining = Put(@, u, Cardinality(ActiveMembers(grp)))]
    /\ GrpFrame

\* joinGroup from the capacity check on: 'Group is at maximum capacity', or the
\* INSERT INTO group_members (a second row of the user raises unique_violation)
JoinInsert(u) ==
    /\ u \in DOMAIN grp.joining
    /\ LET memberCount == grp.joining[u]
       IN grp' = IF memberCount # 0 /\ memberCount >= grp.max_members
                 THEN [grp EXCEPT !.joining = Drop(@, {u})]
                 ELSE IF u \in DOMAIN grp.members
                 THEN [grp EXCEPT !.joining = Drop(@, {u})]
                 ELSE [grp EXCEPT !.joining = Drop(@, {u}),
                                  !.members = Put(@, u, TRUE)]
    /\ GrpFrame

\* request_join_group: a pending request of a user who is not an active member
\* (a second request of the user raises unique_violation)
RequestJoin(u) ==
    /\ u \notin ActiveMembers(grp)
    /\ u \notin DOMAIN grp.requests
    /\ grp' = [grp EXCEPT !.requests = Put(@, u, "pending")]
    /\ GrpFrame

\* process_join_request by the group's admin: the pending request is marked
\* and, when approved, the user's group_members row is inserted (a second row
\* of the user raises unique_violation and the call changes nothing)
ProcessRequest(u, p_approved) ==
    /\ u \in DOMAIN grp.requests
    /\ grp.requests[u] = "pending"
    /\ grp' = IF ~p_approved
              THEN [grp EXCEPT !.requests = Put(@, u, "denied")]
              ELSE IF u \in DOMAIN grp.members
              THEN grp
              ELSE [grp EXCEPT !.requests = Put(@, u, "approved"),
                               !.members = Put(@, u, TRUE)]
    /\ GrpFrame

\* leaveGroup by a member who is not the admin: UPDATE ... SET is_active = false
LeaveGroup(u) ==
    /\ u # GroupAdmin
    /\ u \in DOMAIN grp.members
    /\ grp.members[u]
    /\ grp' = [grp EXCEPT !.members = Put(@, u, FALSE)]
    /\ GrpFrame

\* ------------------------------------------------- TTL resolver specification
\* Appends with every kind of scope and override, against a group whose
\* retention changes and a default retention setting that changes or is absent.
Contents == {"a"}
SendTypes == {"direct", "group"}
SendGroups == {Null, Some("g1"), Some("g9")}
SendOverrides == {Null, Some(0), Some(1), Some(2)}
GroupTimers == {SecsPerHour \div 2, SecsPerHour}
SettingHours == {2}

TtlInit ==
    /\ NoClientInit
    /\ now = 0
    /\ messages = <<>>
    /\ nextId = 1
    /\ groups = [g \in GroupIds |->
                    [message_deletion_timer |-> SecsPerHour, is_active |-> TRUE]]
    /\ app_settings \in {<<>>, (RetentionKey :> FallbackHours)}
    /\ pin = IdlePin
    /\ sweep = IdleSweep
    /\ reply = [op |-> "none", ok |-> TRUE]
    /\ sinceSweep = "none"

TtlNext ==
    \/ \E u \in {"guest", "ghost"}, c \in Contents, t \in SendTypes, g \in SendGroups,
          h \in SendOverrides : nextId <= MaxTtlMsgs /\ DbSend(u, c, t, g, h) /\ NoClient
    \/ \E h \in SettingHours, o \in {"op", "guest"} : UpdateRetention(h, o) /\ NoClient
    \/ \E g \in GroupIds, s \in GroupTimers : UpdateGroup(g, s) /\ NoClient
    \/ \E g \in GroupIds : DeleteGroup(g) /\ NoClient
    \/ Tick /\ NoClient

TtlSpec == TtlInit /\ [][TtlNext]_vars

\* -------------------------------------------------- pin / sweep specification
\* Direct messages under a one-hour default retention, pinned and unpinned by
\* the operator console while the sweep runs.
SweepInit ==
    /\ NoClientInit
    /\ now = 0
    /\ messages = <<>>
    /\ nextId = 1
    /\ groups = [g \in GroupIds |->
                    [message_deletion_timer |-> SecsPerHour, is_active |-> TRUE]]
    /\ app_settings = (RetentionKey :> 1)
    /\ pin = IdlePin
    /\ sweep = IdleSweep
    /\ reply = [op |-> "none", ok |-> TRUE]
    /\ sinceSweep = "none"

SweepNext ==
    \/ \E u \in {"op", "guest"}, c \in Contents : DbSend(u, c, "direct", Null, Null) /\ NoClient
    \/ \E m \in 1..MaxMsgs, o \in DOMAIN users_v2 : PinSelect(m, o) /\ NoClient
    \/ PinUpdate /\ NoClient
    \/ SweepBegin("op") /\ NoClient
    \/ \E id \in 1..MaxMsgs : SweepRow(id) /\ NoClient
    \/ SweepEnd /\ NoClient
    \/ Tick /\ NoClient

SweepSpec == SweepInit /\ [][SweepNext]_vars

\* ------------------------------------------------------- pin specification
\* toggle_message_pin called by every kind of caller (operator, guest, an id
\* of no user) on direct messages of an operator and of a guest.
PinInit == SweepInit

PinNext ==
    \/ \E u \in {"op", "guest"}, c \in Contents : DbSend(u, c, "direct", Null, Null) /\ NoClient
    \/ \E m \in 1..MaxMsgs, o \in CallerIds : PinSelect(m, o) /\ NoClient
    \/ PinUpdate /\ NoClient
    \/ Tick /\ NoClient

PinSpec == PinInit /\ [][PinNext]_vars

\* -------------------------------------------------- DirectChat specifications
ChatContents == {"a", "b"}
ClientRest == <<view, chan, load, send, sync, fed, svcVars>>

\* useEffect on mount: fetchMessages(); setupRealtimeSubscription(); intervals
MountInit ==
    /\ view = <<>>
    /\ feed = <<>>
    /\ chan = [status |-> "joining", retryCount |-> 0, timer |-> FALSE, again |-> FALSE,
            tries |-> 0]
    /\ load = [pc |-> "wait", data |-> <<>>]
    /\ send = IdleSend
    /\ sync = IdleSync
    /\ fed = {}
    /\ life = "mounted"
    /\ hub = IdleHub
    /\ rchat = IdleRchat
    /\ MoreInit

StoreInit(hours) ==
    /\ now = 0
    /\ messages = <<>>
    /\ nextId = 1
    /\ groups = [g \in GroupIds |->
                    [message_deletion_timer |-> SecsPerHour, is_active |-> TRUE]]
    /\ app_settings = (RetentionKey :> hours)
    /\ pin = IdlePin
    /\ sweep = IdleSweep
    /\ reply = [op |-> "none", ok |-> TRUE]
    /\ sinceSweep = "none"

\* another client's sendMessage reaches the store
OtherSend(c) ==
    /\ DbSend("op", c, "direct", Null, Null)
    /\ Publish
    /\ UNCHANGED ClientRest

\* One mounted DirectChat view of ClientUser sending messages while another
\* user sends too and the channel fails and is set up again; the default
\* retention is the schema's 24 hours and the clock stays within one reading.
ChatInit == StoreInit(FallbackHours) /\ MountInit

ChatNext ==
    \/ LoadQuery
    \/ LoadDone
    \/ LoadError
    \/ ChanSubscribed
    \/ ChanError
    \/ ChanTimedOut
    \/ setupRealtimeSubscription
    \/ FeedInsert
    \/ \E c \in ChatContents : SendStart(c)
    \/ SendRpc
    \/ SendError
    \/ SendSelect
    \/ SendDone
    \/ SendFail
    \/ SyncQuery
    \/ SyncDone
    \/ OtherSend("a")

ChatSpec == ChatInit /\ [][ChatNext]_vars

\* One mounted DirectChat view whose channel fails, kept current by the
\* periodic resync and the local cleanup while another user sends, messages
\* expire under a one-hour default retention and the sweep deletes them.
PollInit == StoreInit(1) /\ MountInit

PollNext ==
    \/ LoadQuery
    \/ LoadDone
    \/ LoadError
    \/ ChanSubscribed
    \/ ChanError
    \/ ChanTimedOut
    \/ setupRealtimeSubscription
    \/ FeedInsert
    \/ FeedDelete
    \/ SyncQuery
    \/ SyncDone
    \/ CleanupTick
    \/ OtherSend("a")
    \/ SweepBegin("op") /\ NoClient
    \/ \E id \in 1..MaxMsgs : SweepRow(id) /\ Publish /\ UNCHANGED ClientRest
    \/ SweepEnd /\ NoClient
    \/ Tick /\ NoClient

PollSpec == PollInit /\ [][PollNext]_vars

\* ------------------------------------------------ permission specification
\* The operator console's calls (cleanup, default retention) made in the
\* session of every kind of caller while direct messages expire.
PermInit == SweepInit

PermNext ==
    \/ \E c \in Contents : DbSend("guest", c, "direct", Null, Null) /\ NoClient
    \/ \E u \in CallerIds : SweepBegin(u) /\ NoClient
    \/ \E id \in 1..MaxMsgs : SweepRow(id) /\ NoClient
    \/ SweepEnd /\ NoClient
    \/ \E h \in SettingHours, u \in CallerIds : UpdateRetention(h, u) /\ NoClient
    \/ CleanupError /\ NoClient
    \/ Tick /\ NoClient

PermSpec == PermInit /\ [][PermNext]_vars

\* ----------------------------------------------------- order specification
\* One subscribed DirectChat view of ClientUser sending while another user
\* sends and the clock advances between the sends and the deliveries.
OrderInit == StoreInit(FallbackHours) /\ MountInit

OrderNext ==
    \/ LoadQuery
    \/ LoadDone
    \/ ChanSubscribed
    \/ FeedInsert
    \/ SendStart("a")
    \/ SendRpc
    \/ SendSelect
    \/ SendDone
    \/ OtherSend("b")
    \/ Tick /\ NoClient

OrderSpec == OrderInit /\ [][OrderNext]_vars

\* ----------------------------------------------------- leave specification
\* One DirectChat view that is left (unmounted) at any moment of its initial
\* load, its channel set-up and its retries, while another user sends.
LeaveInit == StoreInit(FallbackHours) /\ MountInit

LeaveNext ==
    \/ LoadQuery
    \/ LoadDone
    \/ LoadError
    \/ ChanSubscribed
    \/ ChanError
    \/ ChanTimedOut
    \/ setupRealtimeSubscription
    \/ FeedInsert
    \/ SyncQuery
    \/ SyncDone
    \/ CleanupTick
    \/ OtherSend("a")
    \/ Unmount

LeaveSpec == LeaveInit /\ [][LeaveNext]_vars

\* ---------------------------------------------- subscription specification
\* One client's subscribe and unsubscribe calls for the direct_chat channel of
\* HybridMessagingService, in every interleaving, while messages are sent.
HubInit == StoreInit(FallbackHours) /\ NoClientInit

HubNext ==
    \/ HubSubscribe
    \/ \E c \in 1..MaxChannels : HubSubscribed(c)
    \/ HubUnsubscribe
    \/ \E u \in {"op", "guest"}, c \in ChatContents :
          DbSend(u, c, "direct", Null, Null) /\ NoClient

HubSpec == HubInit /\ [][HubNext]_vars

\* ---------------------------------------------------- append specification
\* Appends of short and over-long content with well-formed and malformed
\* scopes: by DirectChat's sendMessage and by direct calls of the rpc (the
\* path of HybridMessagingService.sendMessage).
max_message_length == 1000      \* app_settings 'max_message_length'

RECURSIVE Doubled(_, _)
Doubled(s, k) == IF k = 0 THEN s ELSE Doubled(s \o s, k - 1)
LongContent == Doubled("x", 10)     \* 1024 characters

AppendContents == {"a", LongContent}
AppendTypes == {"direct", "group", "system"}
AppendGroups == {Null, Some("g1")}

\* HybridMessagingService.sendMessage: rpc('send_message_v2_guest', ...)
HybridSend(u, c, t, g) ==
    /\ DbSend(u, c, t, g, Null)
    /\ Publish
    /\ UNCHANGED ClientRest

AppendInit == StoreInit(FallbackHours) /\ MountInit

AppendNext ==
    \/ LoadQuery
    \/ LoadDone
    \/ LoadError
    \/ \E c \in AppendContents : SendStart(c)
    \/ SendRpc
    \/ SendError
    \/ SendSelect
    \/ SendDone
    \/ SendFail
    \/ \E c \in AppendContents, t \in AppendTypes, g \in AppendGroups :
          HybridSend("op", c, t, g)

AppendSpec == AppendInit /\ [][AppendNext]_vars

\* ---------------------------------------------------- delete specification
\* A subscribed DirectChat view and a subscribed RealtimeChat view of the
\* direct scope while another user sends, messages expire under a one-hour
\* default retention and the sweep deletes them.
DeleteInit == StoreInit(1) /\ MountInit

BothFeeds == Publish /\ RcPublish /\ UNCHANGED <<view, chan, load, send, sync, fed, life, hub, moreVars>>

DeleteNext ==
    \/ LoadQuery
    \/ LoadDone
    \/ ChanSubscribed
    \/ FeedInsert
    \/ FeedDelete
    \/ RcLoad
    \/ RcSubscribe
    \/ \E c \in 1..MaxChannels : HubSubscribed(c)
    \/ RcInsert
    \/ RcDelete
    \/ DbSend("op", "a", "direct", Null, Null) /\ BothFeeds
    \/ SweepBegin("op") /\ NoClient
    \/ \E id \in 1..MaxMsgs : SweepRow(id) /\ BothFeeds
    \/ SweepEnd /\ NoClient
    \/ Tick /\ NoClient

DeleteSpec == DeleteInit /\ [][DeleteNext]_vars

\* ---------------------------------------------------- expiry specification
\* One subscribed DirectChat view with its local cleanup while the operator
\* sends and pins messages and they expire under a one-hour default retention.
ExpiryInit == StoreInit(1) /\ MountInit

ExpiryNext ==
    \/ LoadQuery
    \/ LoadDone
    \/ ChanSubscribed
    \/ FeedInsert
    \/ CleanupTick
    \/ OtherSend("a")
    \/ \E m \in 1..MaxMsgs : PinSelect(m, "op") /\ NoClient
    \/ PinUpdate /\ NoClient
    \/ Tick /\ NoClient

ExpirySpec == ExpiryInit /\ [][ExpiryNext]_vars

\* ---------------------------------------------------- resync specification
\* One DirectChat view kept current by its initial load and the periodic
\* resync alone while another user sends and messages expire under a one-hour
\* default retention.
ResyncInit == StoreInit(1) /\ MountInit

ResyncNext ==
    \/ LoadQuery
    \/ LoadDone
    \/ SyncQuery
    \/ SyncDone
    \/ OtherSend("a")
    \/ Tick /\ NoClient

ResyncSpec == ResyncInit /\ [][ResyncNext]_vars

\* -------------------------------------------------- recovery specification
\* The leave specification's view under the scheduling the browser gives it:
\* a pending join is answered, a scheduled retry timeout fires, a pending
\* query is answered and the intervals keep firing; the transport may stop
\* failing at any moment (no fairness on the error and time-out callbacks).
RecoveryInit == LeaveInit

RecoveryNext == LeaveNext

RecoverySpec ==
    /\ RecoveryInit
    /\ [][RecoveryNext]_vars
    /\ WF_vars(LoadQuery)
    /\ WF_vars(LoadDone)
    /\ WF_vars(ChanSubscribed)
    /\ WF_vars(setupRealtimeSubscription)
    /\ WF_vars(SyncQuery)
    /\ WF_vars(SyncDone)

\* ------------------------------------------------- broadcast specification
\* One client's HybridMessagingService.sendMessage calls in the direct scope,
\* with and without a zero-hour override, while the client subscribes and
\* unsubscribes the scope's channel and every step of a call may fail.
CastOverrides == {Null, Some(0)}

CastInit == StoreInit(FallbackHours) /\ NoClientInit

CastNext ==
    \/ HubSubscribe
    \/ \E c \in 1..MaxChannels : HubSubscribed(c)
    \/ HubUnsubscribe
    \/ \E h \in CastOverrides : HsRpc("guest", "a", h)
    \/ HsRpcError
    \/ HsSelect
    \/ HsSelectError
    \/ \E o \in BroadcastOutcomes : HsBroadcast(o)

CastSpec == CastInit /\ [][CastNext]_vars

\* ------------------------------------------------- isolation specification
\* Client B's subscribed DirectChat view while client A's operations fail:
\* sendMessage calls of HybridMessagingService by a stored and by an unknown
\* user, failing at the rpc or at the read-back, and pin requests of a guest.
IsolationInit == StoreInit(FallbackHours) /\ MountInit

IsolationNext ==
    \/ LoadQuery
    \/ LoadDone
    \/ ChanSubscribed
    \/ FeedInsert
    \/ \E u \in {"op", "ghost"}, h \in CastOverrides : HsRpc(u, "a", h)
    \/ HsRpcError
    \/ HsSelect
    \/ HsSelectError
    \/ \E o \in BroadcastOutcomes : HsBroadcast(o)
    \/ \E m \in 1..MaxMsgs : PinSelect(m, "guest") /\ NoClient

IsolationSpec == IsolationInit /\ [][IsolationNext]_vars

\* --------------------------------------------------- history specification
\* History loads of the direct scope and of a group scope, with and without
\* the group's id, while direct and group messages are appended and expire.
HistoryGroups == {Null, Some("g1")}

HistoryInit == StoreInit(1) /\ NoClientInit

HistoryNext ==
    \/ DbSend("guest", "a", "direct", Null, Null) /\ NoClient
    \/ DbSend("guest", "a", "group", Some("g1"), Null) /\ NoClient
    \/ Tick /\ NoClient
    \/ \E c \in {"direct", "group"}, g \in HistoryGroups : LoadHistory(c, g)

HistorySpec == HistoryInit /\ [][HistoryNext]_vars

\* ------------------------------------------------- ephemeral specification
\* RealtimeMessagingService with the channels of group 1 and group 10:
\* subscribes, unsubscribes, messages sent and received with a retention of
\* zero, one or two clock steps, and the deletion timers.
RmsGroups == {<<"1">>, <<"1", "0">>}
DeletionTimers == {0, TickSecs, 2 * TickSecs}

EphemeralInit == StoreInit(FallbackHours) /\ NoClientInit

EphemeralNext ==
    \/ \E g \in RmsGroups : RmsSubscribe(g)
    \/ \E g \in RmsGroups : RmsUnsubscribe(g)
    \/ \E g \in RmsGroups, d \in DeletionTimers : RmsSend(g, d)
    \/ \E g \in RmsGroups, d \in DeletionTimers : RmsReceive(g, d)
    \/ \E t \in DOMAIN rms.messageTimers : RmsTimer(t)
    \/ RmsTick

EphemeralSpec == EphemeralInit /\ [][EphemeralNext]_vars

\* ------------------------------------------------ membership specification
\* Three users joining one group by access code and by join request, the
\* admin approving and denying requests, and members leaving, interleaved.
MemberInit == StoreInit(FallbackHours) /\ NoClientInit

MemberNext ==
    \/ \E u \in MemberUsers : JoinCount(u)
    \/ \E u \in MemberUsers : JoinInsert(u)
    \/ \E u \in MemberUsers : RequestJoin(u)
    \/ \E u \in MemberUsers, a \in BOOLEAN : ProcessRequest(u, a)
    \/ \E u \in MemberUsers : LeaveGroup(u)

MemberSpec == MemberInit /\ [][MemberNext]_vars

\* ------------------------------------------------------------------ claims
Expired(id) == messages[id].expires_at < now
SentRow == messages[reply.id]
SendOk == reply.op = "send" /\ reply.ok

\* C1: no step of the system removes a row of messages_v2 whose is_pinned flag
\* is true in the state the step is taken from; the sweep is the only step
\* that removes rows, so the sweep never deletes a message that is pinned at
\* the moment of deletion, however long ago it expired.
C1_PinnedNeverSwept ==
    [][\A id \in DOMAIN messages : messages[id].is_pinned => id \in DOMAIN messages']_vars

\* a sweep has returned; a row of its snapshot was pinned before the DELETE
\* reached it and is still stored, expired and pinned
C1_Witness ==
    /\ reply.op = "sweep"
    /\ \E id \in reply.seen : id \in DOMAIN messages /\ messages[id].is_pinned /\ Expired(id)

\* C2 (as claimed): in every interleaving of toggle_message_pin(id) with the
\* sweep, a row that is pinned when the DELETE re-checks it stays stored, and a
\* pin whose UPDATE runs after the row was deleted fails with 'Message not
\* found' and leaves no row for id.
C2_PinDeleteRace ==
    [][/\ \A id \in DOMAIN messages : messages[id].is_pinned => id \in DOMAIN messages'
       /\ (pin.pc = "update" /\ pin'.pc = "idle" /\ pin.mid \notin DOMAIN messages)
              => /\ reply'.op = "pin"
                 /\ ~reply'.ok
                 /\ reply'.err = "Message not found"
                 /\ pin.mid \notin DOMAIN messages']_vars

\* C3 (as claimed): every stored message expires strictly after its creation.
C3_ExpiresAfterCreated ==
    \A id \in DOMAIN messages : messages[id].expires_at > messages[id].created_at

\* C7: a sweep that starts when nothing was inserted, pinned, unpinned or
\* expired since the previous sweep took its snapshot finds no row to delete,
\* deletes none and returns 0.
C7_SecondSweepDeletesNothing ==
    /\ (sweep.pc = "scan" /\ sweep.follows) => (sweep.snap = {} /\ sweep.cnt = 0)
    /\ (reply.op = "sweep" /\ reply.follows) => (reply.n = 0 /\ reply.seen = {})

\* a sweep that followed another one directly has returned, rows were deleted
\* before it, and an expired pinned row is still stored
C7_Witness ==
    /\ reply.op = "sweep"
    /\ reply.follows
    /\ DOMAIN messages # 1..(nextId - 1)
    /\ \E id \in DOMAIN messages : Expired(id) /\ messages[id].is_pinned

\* C8: an append with an override of h > 0 hours stores
\* expires_at = created_at + h hours, in direct and in group scope, whatever
\* the group's retention and the default setting are.
C8_OverrideHours ==
    (SendOk /\ reply.args.h # Null /\ reply.args.h[1] > 0)
        => SentRow.expires_at = SentRow.created_at + reply.args.h[1] * SecsPerHour

\* a group append with an override that differs from the group's retention
\* and from the default setting, made after the clock has advanced
C8_Witness ==
    /\ SendOk
    /\ reply.args.t = "group"
    /\ reply.args.h = Some(2)
    /\ groups["g1"].message_deletion_timer # 2 * SecsPerHour
    /\ get_message_retention_hours # 2
    /\ SentRow.created_at > 0
    /\ SentRow.expires_at = SentRow.created_at + 2 * SecsPerHour

\* C9 (as claimed): an append to an active group with no override stores
\* expires_at = created_at + message_deletion_timer seconds.
C9_GroupRetentionSeconds ==
    (SendOk /\ reply.args.t = "group" /\ reply.args.h = Null
            /\ groups[reply.args.g[1]].is_active)
        => SentRow.expires_at
             = SentRow.created_at + groups[reply.args.g[1]].message_deletion_timer

\* C10: a direct append with no override stores expires_at = created_at + the
\* default retention hours get_message_retention_hours reports at that moment,
\* and such an append by a known user succeeds also when the setting row is
\* missing, with the 24 hour fallback.
C10_DirectDefault ==
    (reply.op = "send" /\ reply.args.t = "direct" /\ reply.args.g = Null
                       /\ reply.args.h = Null /\ reply.args.u \in DOMAIN users_v2)
        => /\ reply.ok
           /\ SentRow.expires_at
                = SentRow.created_at + get_message_retention_hours * SecsPerHour
           /\ RetentionKey \notin DOMAIN app_settings
                => SentRow.expires_at = SentRow.created_at + FallbackHours * SecsPerHour

\* a direct append with no override succeeded while the setting row is missing
C10_Witness ==
    /\ SendOk
    /\ reply.args.t = "direct"
    /\ reply.args.h = Null
    /\ RetentionKey \notin DOMAIN app_settings
    /\ SentRow.created_at > 0
    /\ SentRow.expires_at = SentRow.created_at + FallbackHours * SecsPerHour

\* C4 (as claimed): when the sender's view has processed both the append
\* response and the change-feed INSERT event of the same message, in either
\* order, the step that processes the second of them leaves exactly one entry
\* with the message's id in the view and no provisional entry of that send.
C4_OneEntryAfterEcho ==
    [][\A id \in 1..MaxMsgs :
          (\/ SendDone /\ send.id = id /\ id \in fed
           \/ FeedInsert /\ Head(feed).row.id = id
                         /\ send.pc = "idle" /\ send.stored # Null /\ send.id = id)
          => /\ Count(view', id) = 1
             /\ send.tempId \notin Ids(view')]_vars

\* the subscription is down and no retry is pending
PollingOnly ==
    chan.status \in {"CHANNEL_ERROR", "TIMED_OUT"} /\ ~chan.timer

\* C5 (as claimed): with the subscription down and its retries used up, a
\* resync whose listing is still the store's listing leaves the view with
\* every listed message and with no entry whose row the store has deleted.
C5_ResyncConverges ==
    [][(SyncDone /\ PollingOnly /\ load.pc = "done" /\ send.pc = "idle"
                 /\ sync.data = SelectDirect)
          => /\ Ids(SelectDirect) \subseteq Ids(view')
             /\ \A id \in Ids(view') : id \in DOMAIN messages]_vars

\* C6 (as claimed): once the channel has been set up again, a view without
\* duplicate ids has none after the INSERT handler of the new subscription or
\* the initial load delivers a message, whether or not its id is already in
\* the view.
C6_NoDuplicateOnRedelivery ==
    [][((FeedInsert \/ LoadDone) /\ chan.again /\ NoDup(view)) => NoDup(view')]_vars

\* C11 (as claimed): an append by a known user to a group scope with no
\* override, whose group is inactive (its retention is unavailable), raises no
\* error and stores expires_at = created_at + the default retention hours that
\* get_message_retention_hours reports (and a direct append uses) at that moment.
C11_GroupFallbackIsDefault ==
    (reply.op = "send" /\ reply.args.t = "group" /\ reply.args.g # Null
                       /\ reply.args.h = Null /\ reply.args.u \in DOMAIN users_v2
                       /\ reply.args.g[1] \in DOMAIN groups
                       /\ ~groups[reply.args.g[1]].is_active)
        => /\ reply.ok
           /\ SentRow.expires_at
                = SentRow.created_at + get_message_retention_hours * SecsPerHour

\* the caller is a user whose role is operator
Privileged(uid) == uid \in DOMAIN users_v2 /\ users_v2[uid] = "operator"

\* C12 (as claimed): every toggle_message_pin call for a stored message made by
\* a caller who is not an operator (another role, or an id that matches no
\* user) ends with the permission error and leaves is_pinned of every message
\* as it was.
C12_PinNeedsOperator ==
    [][(reply' # reply /\ reply'.op = "pin" /\ ~Privileged(reply'.by)
                       /\ reply'.mid \in DOMAIN messages)
          => /\ ~reply'.ok
             /\ reply'.err = "Only operators can pin/unpin messages"
             /\ \A id \in DOMAIN messages \cap DOMAIN messages' :
                   messages'[id].is_pinned = messages[id].is_pinned]_vars

\* CHECK valid_message_type and valid_group_message, as the claim words them
Malformed(t, g) ==
    \/ t \notin {"direct", "group"}
    \/ (t = "direct" /\ g # Null)
    \/ (t = "group" /\ g = Null)

\* C13 (as claimed): an append whose content is longer than max_message_length
\* or whose scope is malformed ends with an error and leaves messages_v2
\* unchanged, on the DirectChat path and on the direct rpc path.
C13_AppendValidates ==
    [][(reply' # reply /\ reply'.op = "send"
           /\ (\/ Len(reply'.args.c) > max_message_length
               \/ Malformed(reply'.args.t, reply'.args.g)))
          => (~reply'.ok /\ messages' = messages)]_vars

\* C14 (as claimed): a cleanup or a change of the default retention made by a
\* caller who is not an operator ends with an error, no step of such a cleanup
\* removes a message, and the setting stays as it was.
C14_ConsoleNeedsOperator ==
    [][/\ (sweep.pc = "scan" /\ ~Privileged(sweep.by))
             => DOMAIN messages \subseteq DOMAIN messages'
       /\ (reply' # reply /\ reply'.op \in {"sweep", "set_retention"}
                          /\ ~Privileged(reply'.by))
             => (~reply'.ok /\ app_settings' = app_settings)]_vars

\* HybridMessagingService.getMessageRetentionHours: return data || 24
ClientFallbackHours == 24
getMessageRetentionHours ==
    IF get_message_retention_hours = 0 THEN ClientFallbackHours
    ELSE get_message_retention_hours

\* C15 (as claimed): when updateMessageRetentionHours(h, operator) has reported
\* ok and no other set followed, getMessageRetentionHours returns h, whether
\* or not the setting row existed before.
C15_SetThenGet ==
    (reply.op = "set_retention" /\ reply.ok /\ Privileged(reply.by))
        => getMessageRetentionHours = reply.hours

\* C16 (as claimed): at every moment at most one channel of the client is
\* subscribed for the scope, whatever subscribe and unsubscribe calls were
\* made and however two subscribe calls overlapped at their await.
C16_OneSubscriptionPerScope == Cardinality(hub.live) <= 1

\* C17 (as claimed): once the view is left, in no later state is a channel of
\* the view joining or subscribed, nor a resubscribe retry scheduled, whenever
\* the leave happened relative to the initial load, the subscribe and a retry.
C17_NothingActiveAfterLeave ==
    life = "left" => (chan.status \notin {"joining", "SUBSCRIBED"} /\ ~chan.timer)

\* C18: without a SUBSCRIBED in between, the view makes at most maxRetries
\* resubscribe attempts; when the last of them has failed no retry is
\* scheduled any more, and while the view is mounted the periodic resync
\* still fires.
C18_BoundedRetries ==
    /\ chan.tries <= maxRetries
    /\ (chan.tries = maxRetries /\ chan.status \in {"CHANNEL_ERROR", "TIMED_OUT"})
          => ~chan.timer
    /\ (PollingOnly /\ life = "mounted" /\ sync.pc = "idle") => ENABLED SyncQuery

\* the third resubscribe attempt in a row has failed; the view runs on the
\* periodic resync, whose query is under way
C18_Witness ==
    /\ chan.tries = maxRetries
    /\ chan.retryCount = maxRetries
    /\ PollingOnly
    /\ life = "mounted"
    /\ sync.pc = "got"

\* C19 (as claimed): after any sequence of INSERT events, in any order and with
\* repetitions, the DirectChat view holds at most one entry per message id.
C19_OneEntryPerId == NoDup(view)

\* ascending by created_at
Sorted(s) == \A i, j \in DOMAIN s : i < j => s[i].created_at <= s[j].created_at

\* C20 (as claimed): after every INSERT event the view has processed, the view
\* is in ascending order of created_at, in whatever order the entries arrived.
C20_ViewSortedAfterReceive ==
    [][FeedInsert => Sorted(view')]_vars

\* what a delete event for id does to a view: the entry of that id is gone,
\* every other entry stays, a view without the id stays as it is
DeleteEffect(before, after, id) ==
    /\ Ids(after) = Ids(before) \ {id}
    /\ id \notin Ids(before) => after = before
    /\ \A i \in DOMAIN before :
          before[i].id # id => \E j \in DOMAIN after : after[j] = before[i]

\* C21: in every subscribed view (DirectChat's and RealtimeChat's), handling a
\* delete event for an id removes the entry of that id if it is present,
\* leaves the view unchanged otherwise, and removes no other entry.
C21_DeleteEventRemovesEntry ==
    [][/\ FeedDelete => DeleteEffect(view, view', Head(feed).row.id)
       /\ RcDelete => DeleteEffect(rchat.messages, rchat'.messages, Head(rchat.feed).row.id)]_vars

\* C22: when a resync completes whose listing is still the store's listing for
\* the scope, every non-provisional entry of the view whose id is absent from
\* the listing is gone and every listed message is in the view, also when the
\* listing holds no id new to the view.
C22_ResyncReconciles ==
    [][(SyncDone /\ sync.data = SelectDirect /\ ValidMessages(sync.data) = sync.data)
          => /\ \A i \in DOMAIN view' :
                   ~IsTemp(view'[i].id) => view'[i].id \in Ids(sync.data)
             /\ Ids(sync.data) \subseteq Ids(view')]_vars

\* C23: a resync never removes from the view the provisional entry of a send
\* whose append has not been acknowledged yet (here: sendMessage has appended
\* its optimistic entry and its rpc has not reached the store).
C23_ResyncKeepsProvisional ==
    [][(SyncDone /\ send.pc = "rpc" /\ send.tempId \in Ids(view))
          => send.tempId \in Ids(view')]_vars

\* C24: when the store append of a send fails, the provisional entry is still
\* in the sender's view after sendMessage's error handling.
C24_FailedSendStaysInView ==
    [][(SendFail /\ send.tempId \in Ids(view)) => send.tempId \in Ids(view')]_vars

\* C25: a sweep whose rpc fails does not raise to its caller, yields a deleted
\* count of 0 and leaves the store as it was; the sweep called after it takes
\* its snapshot of every expired unpinned row and deletes as usual.
C25_FailedSweepIsHarmless ==
    /\ [][(reply' # reply /\ reply'.op = "cleanup")
             => /\ ~reply'.raised
                /\ reply'.n = 0
                /\ UNCHANGED <<messages, groups, app_settings, sweep>>]_vars
    /\ [](reply.op = "cleanup" =>
             /\ sweep.pc = "idle" => ENABLED SweepBegin("op")
             /\ sweep.pc = "scan" =>
                   /\ sweep.cnt = Cardinality(sweep.snap \ sweep.todo)
                   /\ \A id \in DOMAIN messages :
                         SweepQual(messages[id], sweep.at) => id \in sweep.todo)

\* a failed sweep was the last call to finish and the sweep begun after it has
\* deleted an expired row
C25_Witness ==
    /\ reply.op = "cleanup"
    /\ ~reply.raised
    /\ sweep.pc = "scan"
    /\ sweep.cnt > 0

\* C26: pinning is idempotent: when the same pin request of an operator on the
\* same message succeeds twice in a row, the stored flag after the second
\* request is the flag after the first.
C26_PinIdempotent ==
    [][(/\ reply.op = "pin" /\ reply.ok /\ Privileged(reply.by)
        /\ reply' # reply
        /\ reply'.op = "pin" /\ reply'.ok /\ reply'.by = reply.by
        /\ reply'.mid = reply.mid
        /\ reply.mid \in DOMAIN messages /\ reply.mid \in DOMAIN messages')
          => messages'[reply.mid].is_pinned = messages[reply.mid].is_pinned]_vars

\* C27: every stored group message has a group_id that references an active
\* group, and every stored direct message has no group_id.
C27_ScopeReferencesActiveGroup ==
    \A id \in DOMAIN messages :
       /\ messages[id].message_type = "group" =>
             /\ messages[id].group_id # Null
             /\ messages[id].group_id[1] \in DOMAIN groups
             /\ groups[messages[id].group_id[1]].is_active
       /\ messages[id].message_type = "direct" => messages[id].group_id = Null

\* C28: a change of the default retention setting or of a group's retention
\* leaves every stored message, and so its expires_at, as it was.
C28_RetentionChangeKeepsStored ==
    [][(\/ \E h \in SettingHours, u \in CallerIds : UpdateRetention(h, u)
        \/ \E g \in GroupIds, s \in GroupTimers : UpdateGroup(g, s))
          => /\ DOMAIN messages' = DOMAIN messages
             /\ \A id \in DOMAIN messages :
                   messages'[id].expires_at = messages[id].expires_at]_vars

\* the operator has changed the default retention and a stored direct message
\* still expires after the hours that were the default when it was appended
C28_Witness ==
    /\ reply.op = "set_retention"
    /\ reply.rows = 1
    /\ \E id \in DOMAIN messages :
          /\ messages[id].message_type = "direct"
          /\ messages[id].expires_at = messages[id].created_at + FallbackHours * SecsPerHour
          /\ get_message_retention_hours # FallbackHours

\* C29: an override that is present but not positive is not applied: the
\* append stores the expires_at it would store with no override (the group's
\* retention in group scope, the default retention otherwise).
C29_NonPositiveOverrideIgnored ==
    (/\ SendOk
     /\ reply.args.h # Null
     /\ reply.args.h[1] <= 0)
       => SentRow.expires_at =
             SentRow.created_at
               + RetentionHours(reply.args.t, reply.args.g, Null) * SecsPerHour

\* an entry of the view that carries the pinned flag
PinnedEntry(m) == "is_pinned" \in DOMAIN m /\ m.is_pinned

\* C30: a local sweep tick keeps every pinned entry and every entry that has not
\* expired, and removes every unpinned entry whose expires_at has passed.
C30_LocalSweepKeepsPinned ==
    [][CleanupTick =>
          \A i \in DOMAIN view :
             /\ PinnedEntry(view[i]) => view[i].id \in Ids(view')
             /\ view[i].expires_at > now => view[i].id \in Ids(view')
             /\ (~PinnedEntry(view[i]) /\ view[i].expires_at < now)
                   => view[i].id \notin Ids(view')]_vars

\* C31: a resync whose listing holds exactly the ids of the view leaves the
\* view as it is (same entries, same order), and applying the same listing a
\* second time after any resync gives the view the first application gave.
C31_ResyncIdempotent ==
    [][SyncDone =>
          /\ Ids(sync.data) = Ids(view) => view' = view
          /\ OnSync(view', sync.data) = view']_vars

\* the initial load is still pending, a resync has filled the view with two
\* messages, and the next resync's listing, equal to the view, has arrived
C31_Witness ==
    /\ load.pc = "wait"
    /\ sync.pc = "got"
    /\ Len(view) = 2
    /\ sync.data = view

\* C32: a view whose subscribe retries are exhausted, and which stays open on
\* a transport that has stopped failing, eventually has a joined subscription
\* again.
C32_DegradedRecovers ==
    (PollingOnly /\ life = "mounted") ~> (chan.status = "SUBSCRIBED" \/ life = "left")

\* C33: HybridMessagingService.sendMessage hands a message to the broadcast
\* only after the message was stored and read back, and the payload is the row
\* read back; a call whose append or read-back failed has sent no broadcast
\* and has thrown.
C33_BroadcastAfterStore ==
    /\ hsend.cast # Null =>
          /\ hsend.stored # Null
          /\ hsend.stored[1].id = hsend.id
          /\ hsend.id \in 1..(nextId - 1)
          /\ hsend.cast[1] = realtimeMessage(hsend.stored[1])
    /\ (hsend.pc = "done" /\ hsend.stored = Null) =>
          (hsend.cast = Null /\ hsend.result = "threw")

\* a call has broadcast the row it read back and returned, and the call
\* before it failed at its read-back (its row is stored, hidden by its expiry)
C33_Witness ==
    /\ hsend.pc = "done"
    /\ hsend.result = "ok"
    /\ hsend.cast # Null
    /\ hsend.id = 2
    /\ 1 \in DOMAIN messages /\ ~Visible(1)

\* C34: when the append succeeded and the row was read back, sendMessage
\* returns the stored message whatever the broadcast gave (acknowledged,
\* rejected, timed out, raising, or no channel mapped).
C34_BroadcastFailureNotSurfaced ==
    (hsend.pc = "done" /\ hsend.stored # Null) =>
       /\ hsend.result = "ok"
       /\ hsend.ret = Some(realtimeMessage(hsend.stored[1]))

\* C35: a failed operation of client A changes neither the store nor client
\* B's view: a store call that returns an error leaves the tables, B's view
\* and B's channel as they were, and a sendMessage call of A that has thrown
\* has left no row in the store and no entry in B's view.
C35_FailuresAreLocal ==
    /\ [][(reply' # reply /\ ~reply'.ok)
             => UNCHANGED <<messages, groups, app_settings, view, feed>>]_vars
    /\ []((hsend.pc = "done" /\ hsend.result = "threw")
             => /\ hsend.id \notin DOMAIN messages
                /\ hsend.id \notin Ids(view))

\* C36: a pin request of an operator on a stored, unpinned message succeeds and
\* leaves the message pinned, whatever the role of its author; a pin request
\* fails only with the permission error or the not-found error.
C36_OperatorPinsAnyMessage ==
    [][(reply' # reply /\ reply'.op = "pin")
          => /\ (/\ Privileged(reply'.by)
                 /\ reply'.mid \in DOMAIN messages
                 /\ ~messages[reply'.mid].is_pinned)
                   => (reply'.ok /\ messages'[reply'.mid].is_pinned)
             /\ ~reply'.ok => reply'.err \in {"Only operators can pin/unpin messages",
                                              "Message not found"}]_vars

\* C37: a history load returns only messages of its scope, ascending by
\* created_at: a group load returns no direct message, also when the group id
\* is absent, and no message of another group; a load of a well-formed scope
\* returns every stored unexpired message of the scope.
C37_HistoryOfScopeOnly ==
    [][(\E c \in {"direct", "group"}, g \in HistoryGroups : LoadHistory(c, g))
          => /\ \A i \in DOMAIN hist'.rows :
                   /\ hist'.rows[i].message_type = hist'.context
                   /\ (hist'.context = "group" /\ hist'.groupId # Null)
                         => hist'.rows[i].group_id = hist'.groupId
             /\ Sorted(hist'.rows)
             /\ (hist'.context = "direct" \/ hist'.groupId # Null)
                   => \A id \in DOMAIN messages :
                         (Visible(id) /\ HistoryFilter(messages[id], hist'.context, hist'.groupId))
                            => id \in Ids(hist'.rows)]_vars

\* C38: no message in the local store of a subscribed channel of
\* RealtimeMessagingService has an expires_at that has passed (the deletion
\* timers fire when they are due): a stored message expires later, or expires
\* now and its timer is about to fire; a message that is expired when it
\* arrives is not kept.
C38_ExpiredLeavesLocalStore ==
    \A c \in rms.channels :
       c \in DOMAIN rms.messages =>
          \A i \in DOMAIN rms.messages[c] :
             LET m == rms.messages[c][i]
             IN /\ m.expires_at >= now
                /\ m.expires_at = now => TimerId(c, m.id) \in DOMAIN rms.messageTimers

\* the timers of a channel: those set for a message of that channel
TimersOf(r, c) == {t \in DOMAIN r.messageTimers : r.messageTimers[t].channelName = c}

\* C39: unsubscribe(c) removes the subscription, the stored messages and the
\* pending timers of channel c and leaves the messages and the pending timers
\* of every other channel as they were, group_10 included when c is group_1.
C39_UnsubscribeTouchesOneChannel ==
    [][\A g \in RmsGroups :
          RmsUnsubscribe(g) =>
             LET c == getChannelName(g)
             IN /\ c \notin rms'.channels
                /\ c \notin DOMAIN rms'.messages
                /\ TimersOf(rms', c) = {}
                /\ \A h \in RmsGroups \ {g} :
                      LET d == getChannelName(h)
                      IN /\ (d \in rms.channels) = (d \in rms'.channels)
                         /\ (d \in DOMAIN rms.messages) = (d \in DOMAIN rms'.messages)
                         /\ d \in DOMAIN rms.messages => rms'.messages[d] = rms.messages[d]
                         /\ TimersOf(rms', d) = TimersOf(rms, d)]_vars

\* C40: after any interleaving of joinGroup calls, join-request approvals and
\* leaves of different users, the group has no more active members than its
\* max_members.
C40_MembersWithinCapacity ==
    Cardinality(ActiveMembers(grp)) <= grp.max_members

====
